---- MODULE Spec2Model ----
(***************************************************************************)
(* Model of the FHIR store of waytothevenus/EMR                            *)
(* (packages/fhir-store/fhir-state.ts): the redux slice `fhir` (reducers   *)
(* as functions State x payload -> State) and the sagas that talk to the   *)
(* FHIR server (query, save, immediate delete).                            *)
(*                                                                         *)
(* Strings that the code takes apart (ids, references) are sequences of    *)
(* tokens: "Condition/c1" is <<"Condition", "/", "c1">> and                 *)
(* "urn:uuid:n1" is <<"urn:uuid:", "n1">>.  A token never contains "/".    *)
(*                                                                         *)
(* A reducer that throws leaves the store as it was (immer discards the    *)
(* draft and redux keeps currentState); the exception reaches whoever      *)
(* dispatched, and the saga middleware does not forward the action.        *)
(***************************************************************************)
EXTENDS Integers, Sequences, FiniteSets, TLC

VARIABLES
    fhir,       \* the slice state (interface State)
    fetching,   \* queries whose fhirServer.get is outstanding
    posting,    \* onSaveSaga instances whose fhirServer.post is outstanding
    deleting,   \* onDeleteImmediately instances whose fhirServer.delete is outstanding
    gets,       \* history: number of fhirServer.get calls per query string
    saves,      \* number of save commands dispatched so far
    last,       \* history: the step taken last
    prev        \* history: the command before it, with the state it found

vars == <<fhir, fetching, posting, deleting, gets, saves, last, prev>>

----------------------------------------------------------------------------
(* Bounds *)

MaxSaves == 2       \* save commands dispatched in one run
MaxGen == 3         \* saveGeneration is capped (guards of the confirmations)
MaxDeletes == 1     \* outstanding immediate deletes
MaxGets == 2        \* fhirServer.get calls counted per query string

----------------------------------------------------------------------------
(* Strings *)

StartsWith(s, p) == Len(s) >= Len(p) /\ SubSeq(s, 1, Len(p)) = p

UrnUuid == <<"urn:uuid:">>

\* `undefined`: what a lookup of a missing key yields
Undefined == [undefined |-> TRUE]

----------------------------------------------------------------------------
(* Resources and references (FhirTypes.ts) *)

isNew(resource) == StartsWith(resource.id, UrnUuid)

typeId(r) == <<r.resourceType, "/">> \o r.id

referenceTo(resource) ==
    IF isNew(resource)
    THEN [reference |-> resource.id, type |-> resource.resourceType]
    ELSE [reference |-> typeId(resource)]

isResource(r) == "resourceType" \in DOMAIN r

isBundle(r) == r.resourceType = "Bundle"

isSameId(r1, r2) == r1.id = r2.id /\ r1.resourceType = r2.resourceType

----------------------------------------------------------------------------
(* Resource graph *)

Containers ==
    {"compositions", "conditions", "encounters", "patients", "observations",
     "diagnosticReports", "lists", "medicationAdministrations",
     "medicationRequests", "serviceRequests", "tasks"}

\* the order of the keys of emptyResources (Object.values follows it)
ContainerOrder ==
    <<"compositions", "conditions", "encounters", "patients", "observations",
      "diagnosticReports", "lists", "medicationAdministrations",
      "medicationRequests", "serviceRequests", "tasks">>

NoEntries == [k \in {} |-> Undefined]

emptyResources == [c \in Containers |-> NoEntries]

\* the switch of getResourceContainer; "" stands for the default branch (throw)
containerName(resourceType) ==
    CASE resourceType = "Composition" -> "compositions"
      [] resourceType = "Condition" -> "conditions"
      [] resourceType = "Encounter" -> "encounters"
      [] resourceType = "List" -> "lists"
      [] resourceType = "Patient" -> "patients"
      [] resourceType = "Observation" -> "observations"
      [] resourceType = "DiagnosticReport" -> "diagnosticReports"
      [] resourceType = "MedicationAdministration" -> "medicationAdministrations"
      [] resourceType = "MedicationRequest" -> "medicationRequests"
      [] resourceType = "ServiceRequest" -> "serviceRequests"
      [] resourceType = "Task" -> "tasks"
      [] OTHER -> ""

\* getResourceContainer throws: r is undefined (r.resourceType is a TypeError)
\* or its type has no container
containerThrows(r) == r = Undefined \/ containerName(r.resourceType) = ""

Put(container, id, r) ==
    [k \in DOMAIN container \cup {id} |-> IF k = id THEN r ELSE container[k]]

Remove(container, id) == [k \in DOMAIN container \ {id} |-> container[k]]

\* a faulty setResource: the key is the reference, as in deletions
setResourceUnderReference(resources, r) ==
    [resources EXCEPT ![containerName(r.resourceType)] = Put(@, typeId(r), r)]

setResource(resources, r) ==
    [resources EXCEPT ![containerName(r.resourceType)] = Put(@, r.id, r)]

getResource(resources, r) ==
    LET container == resources[containerName(r.resourceType)]
    IN IF r.id \in DOMAIN container THEN container[r.id] ELSE Undefined

deleteResource(resources, r) ==
    [resources EXCEPT ![containerName(r.resourceType)] = Remove(@, r.id)]

----------------------------------------------------------------------------
(* Helpers over sequences and containers *)

RECURSIVE SetToSeq(_)
SetToSeq(S) ==
    IF S = {} THEN <<>>
    ELSE LET x == CHOOSE y \in S : TRUE IN <<x>> \o SetToSeq(S \ {x})

\* Object.values(container): one value per key (the model keeps a fixed key order)
Values(container) ==
    LET keys == SetToSeq(DOMAIN container)
    IN [i \in 1..Len(keys) |-> container[keys[i]]]

RECURSIVE FlatValues(_, _)
\* Object.values(resources).flatMap(Object.values), containers from index i on
FlatValues(resources, i) ==
    IF i > Len(ContainerOrder) THEN <<>>
    ELSE Values(resources[ContainerOrder[i]]) \o FlatValues(resources, i + 1)

Range(seq) == {seq[i] : i \in 1..Len(seq)}

RECURSIVE setAll(_, _)
\* for (const resource of rs) setResource(resources, resource)
setAll(resources, rs) ==
    IF rs = <<>> THEN resources
    ELSE setAll(setResource(resources, Head(rs)), Tail(rs))

RECURSIVE deleteAll(_, _)
\* for (const resource of rs) deleteResource(resources, resource)
deleteAll(resources, rs) ==
    IF rs = <<>> THEN resources
    ELSE deleteAll(deleteResource(resources, Head(rs)), Tail(rs))

anyThrows(rs) == \E i \in 1..Len(rs) : containerThrows(rs[i])

----------------------------------------------------------------------------
(* The slice state *)

Null == [null |-> TRUE]

initialState ==
    [queries |-> NoEntries,
     showLoadingScreen |-> TRUE,
     showErrors |-> FALSE,
     resourcesWithEdits |-> emptyResources,
     resourcesFromServer |-> emptyResources,
     edits |-> emptyResources,
     deletions |-> NoEntries,
     saveState |-> Null,
     saveGeneration |-> 0,
     patientId |-> <<"42">>,
     unread |-> {}]

\* a reducer that throws leaves the state as it was
Reduced(state, throws, result) == IF throws THEN state ELSE result

----------------------------------------------------------------------------
(* Save requests *)

\* SaveRequest.filter is a predicate; the model knows the one of
\* Timeline.tsx (isSameId with a given resource) and a filter by type
applyFilter(filter, res) ==
    IF filter.kind = "isSameId" THEN isSameId(res, filter.resource)
    ELSE res.resourceType = filter.resourceType

has(request, field) == field \in DOMAIN request

getResourcesToSave(state, saveRequest) ==
    IF isResource(saveRequest) THEN <<saveRequest>>
    ELSE LET resources == FlatValues(state.edits, 1)
             byFilter(r) == applyFilter(saveRequest.filter, r)
             byResource(r) == r.resourceType = saveRequest.resource.resourceType
                              /\ r.id = saveRequest.resource.id
         IN IF has(saveRequest, "filter") THEN SelectSeq(resources, byFilter)
            ELSE IF has(saveRequest, "resource") THEN SelectSeq(resources, byResource)
            ELSE resources

----------------------------------------------------------------------------
(* Reducers of fhirSlice.  X(state, payload) is the state after the reducer  *)
(* ran to its end, XThrows(state, payload) says that it throws instead.     *)

queryLoading(state, request) ==
    [state EXCEPT !.queries =
        Put(@, request.query,
            [state |-> "loading", showLoadingScreen |-> request.showLoadingScreen])]

someFlaggedLoading(queries) ==
    \E q \in DOMAIN queries :
        queries[q].state = "loading" /\ queries[q].showLoadingScreen

queryLoadedThrows(state, request, resources) == anyThrows(resources)

queryLoaded(state, request, resources) ==
    LET s1 == [state EXCEPT
                  !.resourcesWithEdits = setAll(@, resources),
                  !.resourcesFromServer = setAll(@, resources),
                  !.queries = Put(@, request.query, [state |-> "loaded"])]
    IN IF s1.showLoadingScreen
       THEN [s1 EXCEPT !.showLoadingScreen = someFlaggedLoading(s1.queries)]
       ELSE s1

\* a faulty queryError: the error is recorded without raising showErrors
queryErrorSilent(state, request, error) ==
    [state EXCEPT !.queries = Put(@, request.query, [state |-> "error", error |-> error])]

\* a faulty queryError: the failed query string is forgotten
queryErrorForgets(state, request, error) ==
    [state EXCEPT !.queries = Remove(@, request.query), !.showErrors = TRUE]

queryError(state, request, error) ==
    [state EXCEPT !.queries = Put(@, request.query, [state |-> "error", error |-> error]),
                  !.showErrors = TRUE]

editThrows(state, resource) == containerThrows(resource)

\* a faulty edit: the state of the save under way is kept
editKeepsSaveState(state, resource) ==
    [state EXCEPT !.edits = setResource(@, resource),
                  !.resourcesWithEdits = setResource(@, resource)]

\* a faulty edit: the edit is written to the graph of the server as well
editCommitted(state, resource) ==
    [state EXCEPT !.edits = setResource(@, resource),
                  !.resourcesWithEdits = setResource(@, resource),
                  !.resourcesFromServer = setResource(@, resource),
                  !.saveState = Null]

edit(state, resource) ==
    [state EXCEPT !.edits = setResource(@, resource),
                  !.resourcesWithEdits = setResource(@, resource),
                  !.saveState = Null]

addAutoGeneratedThrows(state, resource) == containerThrows(resource)

addAutoGenerated(state, resource) ==
    [state EXCEPT !.resourcesWithEdits = setResource(@, resource)]

\* deleteResource or getResource throws on the type, setResource on `original`
undoEditsThrows(state, resource) ==
    \/ containerThrows(resource)
    \/ containerThrows(getResource(state.resourcesFromServer, resource))

undoEdits(state, resource) ==
    LET original == getResource(state.resourcesFromServer, resource)
    IN [state EXCEPT !.edits = deleteResource(@, resource),
                     !.resourcesWithEdits = setResource(@, original)]

deleteThrows(state, resource) == containerThrows(resource)

delete(state, resource) ==
    [state EXCEPT !.deletions = Put(@, referenceTo(resource).reference, resource),
                  !.resourcesWithEdits = deleteResource(@, resource),
                  !.edits = deleteResource(@, resource),
                  !.saveState = Null]

deleteImmediatelyThrows(state, resource) == containerThrows(resource)

\* a faulty deleteImmediately: the pending edit of the resource is kept
deleteImmediatelyKeepsEdits(state, resource) ==
    [state EXCEPT !.resourcesWithEdits = deleteResource(@, resource),
                  !.saveState = Null]

deleteImmediately(state, resource) ==
    [state EXCEPT !.resourcesWithEdits = deleteResource(@, resource),
                  !.edits = deleteResource(@, resource),
                  !.saveState = Null]

undoDeleteThrows(state, resource) ==
    \/ containerThrows(resource)
    \/ containerThrows(getResource(state.resourcesFromServer, resource))

undoDelete(state, resource) ==
    LET original == getResource(state.resourcesFromServer, resource)
    IN [state EXCEPT !.deletions = Remove(@, referenceTo(resource).reference),
                     !.resourcesWithEdits = setResource(@, original)]

\* FHIR.Composition.new(...) of the save reducer: a new uuid id, the html of
\* the note in section[0], the references of `toSave` in section[1].entry
progressNoteComposition(toSave, uuid) ==
    [resourceType |-> "Composition",
     id |-> UrnUuid \o <<uuid>>,
     data |-> 0,
     entry |-> [i \in 1..Len(toSave) |-> referenceTo(toSave[i])]]

\* `uuid` is the value uuidv4() returns should the reducer ask for one
save(state, payload, uuid) ==
    LET progressNote == IF isResource(payload) THEN FALSE
                        ELSE has(payload, "progressNote")
        s1 == IF progressNote
              THEN [state EXCEPT !.edits =
                       setResource(@, progressNoteComposition(
                                          getResourcesToSave(state, payload), uuid))]
              ELSE state
    IN [s1 EXCEPT !.saveState = [state |-> "saving"]]

setSaveState(state, saveState) == [state EXCEPT !.saveState = saveState]

setSavedThrows(state, resources) == anyThrows(resources)

\* a faulty setSaved: the saved resources stay in the overlay
setSavedKeepsEdits(state, resources) ==
    [state EXCEPT !.resourcesFromServer = setAll(@, resources),
                  !.saveGeneration = @ + 1]

setSaved(state, resources) ==
    [state EXCEPT !.resourcesFromServer = setAll(@, resources),
                  !.edits = deleteAll(@, resources),
                  !.saveGeneration = @ + 1]

deletedThrows(state, resource) == containerThrows(resource)

\* a faulty deleted: the removal is taken from the working view
deletedFromView(state, resource) ==
    [state EXCEPT !.resourcesWithEdits = deleteResource(@, resource),
                  !.saveGeneration = @ + 1]

\* a faulty deleted: the removal is committed, the generation is not counted
deletedKeepsGeneration(state, resource) ==
    [state EXCEPT !.resourcesFromServer = deleteResource(@, resource)]

deleted(state, resource) ==
    [state EXCEPT !.resourcesFromServer = deleteResource(@, resource),
                  !.saveGeneration = @ + 1]

\* a faulty undoAll: the working view is reset to the graph of the server
undoAllRestores(state) ==
    [state EXCEPT !.edits = [c \in DOMAIN @ |-> NoEntries],
                  !.resourcesWithEdits = state.resourcesFromServer]

undoAll(state) == [state EXCEPT !.edits = [c \in DOMAIN @ |-> NoEntries]]

----------------------------------------------------------------------------
(* Initial state *)

NoStep == [op |-> "none"]

Init ==
    /\ fhir = initialState
    /\ fetching = {}
    /\ posting = {}
    /\ deleting = {}
    /\ gets = NoEntries
    /\ saves = 0
    /\ last = NoStep
    /\ prev = NoStep

----------------------------------------------------------------------------
(* Commands that only run a reducer *)

Edit(resource) ==
    /\ fhir' = Reduced(fhir, editThrows(fhir, resource), edit(fhir, resource))
    /\ UNCHANGED <<fetching, posting, deleting, gets, saves>>

AddAutoGenerated(resource) ==
    /\ fhir' = Reduced(fhir, addAutoGeneratedThrows(fhir, resource),
                       addAutoGenerated(fhir, resource))
    /\ UNCHANGED <<fetching, posting, deleting, gets, saves>>

UndoEdits(resource) ==
    /\ fhir' = Reduced(fhir, undoEditsThrows(fhir, resource), undoEdits(fhir, resource))
    /\ UNCHANGED <<fetching, posting, deleting, gets, saves>>

\* a faulty store: what delete wrote before it threw is kept
DeleteWithoutRollback(resource) ==
    /\ fhir' = IF deleteThrows(fhir, resource)
               THEN [fhir EXCEPT !.deletions =
                        Put(@, referenceTo(resource).reference, resource)]
               ELSE delete(fhir, resource)
    /\ UNCHANGED <<fetching, posting, deleting, gets, saves>>

Delete(resource) ==
    /\ fhir' = Reduced(fhir, deleteThrows(fhir, resource), delete(fhir, resource))
    /\ UNCHANGED <<fetching, posting, deleting, gets, saves>>

UndoDelete(resource) ==
    /\ fhir' = Reduced(fhir, undoDeleteThrows(fhir, resource), undoDelete(fhir, resource))
    /\ UNCHANGED <<fetching, posting, deleting, gets, saves>>

UndoAll ==
    /\ fhir' = undoAll(fhir)
    /\ UNCHANGED <<fetching, posting, deleting, gets, saves>>

----------------------------------------------------------------------------
(* onQuerySaga *)

Count(counters, q) == IF q \in DOMAIN counters THEN counters[q] ELSE 0

\* a faulty lookup: only a query that is still loading counts as known
queryStateWhileLoading(state, query) ==
    IF query \in DOMAIN state.queries /\ state.queries[query].state = "loading"
    THEN state.queries[query] ELSE Undefined

\* select((s) => s.fhir.queries[query])
queryState(state, query) ==
    IF query \in DOMAIN state.queries THEN state.queries[query] ELSE Undefined

\* the saga up to its call of fhirServer.get: nothing happens when the query
\* string already has a state
Query(request) ==
    /\ Count(gets, request.query) < MaxGets
    /\ IF queryState(fhir, request.query) = Undefined
       THEN /\ fhir' = queryLoading(fhir, request)
            /\ fetching' = fetching \cup {request}
            /\ gets' = Put(gets, request.query, Count(gets, request.query) + 1)
       ELSE UNCHANGED <<fhir, fetching, gets>>
    /\ UNCHANGED <<posting, deleting, saves>>

\* data.entry?.map((e) => e.resource) || [] for a bundle, [data] otherwise
loadedResources(data) ==
    IF isBundle(data)
    THEN [i \in 1..Len(data.entry) |-> data.entry[i].resource]
    ELSE <<data>>

\* fhirServer.get resolved with `data`: queryLoaded, or queryError when the
\* queryLoaded reducer throws inside the try block
QueryResolved(request, data) ==
    /\ request \in fetching
    /\ fhir' = IF queryLoadedThrows(fhir, request, loadedResources(data))
               THEN queryError(fhir, request, "No state object for resource")
               ELSE queryLoaded(fhir, request, loadedResources(data))
    /\ fetching' = fetching \ {request}
    /\ UNCHANGED <<posting, deleting, gets, saves>>

\* fhirServer.get rejected
QueryRejected(request) ==
    /\ request \in fetching
    /\ fhir' = queryError(fhir, request, "get failed")
    /\ fetching' = fetching \ {request}
    /\ UNCHANGED <<posting, deleting, gets, saves>>

----------------------------------------------------------------------------
(* save and onSaveSaga *)

\* a faulty entry: FHIR.Bundle.putEntry, a PUT by type and id for every resource
putEntry(resource) ==
    [fullUrl |-> typeId(resource),
     resource |-> resource,
     request |-> [method |-> "PUT", url |-> typeId(resource)]]

\* the entry of the transaction for one resource
transactionEntry(resource) ==
    LET isUUID == StartsWith(resource.id, UrnUuid)
    IN [fullUrl |-> (IF isUUID THEN <<>> ELSE <<resource.resourceType, "/">>)
                    \o resource.id,
        resource |-> resource,
        request |-> [method |-> IF isUUID THEN "POST" ELSE "PUT",
                     url |-> IF isUUID THEN <<resource.resourceType>>
                             ELSE <<resource.resourceType, "/">> \o resource.id]]

newTransaction(entries) ==
    [resourceType |-> "Bundle", type |-> "transaction", entry |-> entries]

\* the value uuidv4() returns in the n-th save
Uuids == <<"u1", "u2", "u3", "u4">>

wantsNote(payload) == ~isResource(payload) /\ has(payload, "progressNote")

\* the state the saga selects: after the save reducer and setSaveState
afterSave(state, payload, uuid) ==
    setSaveState(save(state, payload, uuid), [state |-> "saving"])

\* what the saga keeps across its call of fhirServer.post
saveSaga(state, payload, id) ==
    LET toSave == getResourcesToSave(state, payload)
    IN [id |-> id, payload |-> payload, toSave |-> toSave,
        bundle |-> newTransaction(
                       [i \in 1..Len(toSave) |-> transactionEntry(toSave[i])])]

\* the save reducer, then the saga up to its call of fhirServer.post; the
\* sagas are numbered in the order of the save commands
Save(payload) ==
    /\ saves < MaxSaves
    /\ fhir' = afterSave(fhir, payload, Uuids[saves + 1])
    /\ saves' = saves + 1
    /\ posting' = posting \cup {saveSaga(fhir', payload, saves + 1)}
    /\ UNCHANGED <<fetching, deleting, gets>>

\* the saga after fhirServer.post resolved with `response`
afterPost(state, toSave, response) ==
    IF isBundle(response)
    THEN IF setSavedThrows(state, toSave)
         THEN setSaveState(state, [state |-> "error",
                                   error |-> "No state object for resource"])
         ELSE setSaved(state, toSave)
    ELSE state

SaveResolved(p, response) ==
    /\ p \in posting
    /\ fhir.saveGeneration < MaxGen
    /\ fhir' = afterPost(fhir, p.toSave, response)
    /\ posting' = posting \ {p}
    /\ UNCHANGED <<fetching, deleting, gets, saves>>

\* the saga after fhirServer.post rejected
afterPostFailed(state, error) == setSaveState(state, [state |-> "error", error |-> error])

SaveRejected(p) ==
    /\ p \in posting
    /\ fhir' = afterPostFailed(fhir, "post failed")
    /\ posting' = posting \ {p}
    /\ UNCHANGED <<fetching, deleting, gets, saves>>

----------------------------------------------------------------------------
(* deleteImmediately and onDeleteImmediately *)

FreeId(inFlight, max) == CHOOSE n \in 1..max : \A p \in inFlight : p.id # n

\* the reducer, then the saga up to its call of fhirServer.delete; no saga
\* starts when the reducer throws
DeleteImmediately(resource) ==
    /\ Cardinality(deleting) < MaxDeletes
    /\ fhir' = Reduced(fhir, deleteImmediatelyThrows(fhir, resource),
                       deleteImmediately(fhir, resource))
    /\ deleting' = IF deleteImmediatelyThrows(fhir, resource) THEN deleting
                   ELSE deleting \cup {[id |-> FreeId(deleting, MaxDeletes),
                                        resource |-> resource]}
    /\ UNCHANGED <<fetching, posting, gets, saves>>

\* fhirServer.delete resolved
DeleteResolved(d) ==
    /\ d \in deleting
    /\ fhir.saveGeneration < MaxGen
    /\ fhir' = Reduced(fhir, deletedThrows(fhir, d.resource), deleted(fhir, d.resource))
    /\ deleting' = deleting \ {d}
    /\ UNCHANGED <<fetching, posting, gets, saves>>

\* fhirServer.delete rejected
DeleteRejected(d) ==
    /\ d \in deleting
    /\ deleting' = deleting \ {d}
    /\ UNCHANGED <<fhir, fetching, posting, gets, saves>>

----------------------------------------------------------------------------
(* History: the step taken last, and the command before it together with    *)
(* the state it found, kept for the one step that answers it               *)

Snapshot(state) ==
    [edits |-> state.edits,
     resourcesWithEdits |-> state.resourcesWithEdits,
     resourcesFromServer |-> state.resourcesFromServer,
     deletions |-> state.deletions,
     saveGeneration |-> state.saveGeneration]

Step(op, arg) == last' = [op |-> op, arg |-> arg] /\ prev' = NoStep

\* a command that an undo or an answer of the server may follow
Command(op, arg) ==
    /\ last' = [op |-> op, arg |-> arg]
    /\ prev' = [op |-> op, arg |-> arg, pre |-> Snapshot(fhir)]

\* the step that follows the command `to` with the same argument
Answer(op, to, arg, info) ==
    /\ last' = [op |-> op, arg |-> arg, info |-> info]
    /\ prev' = IF last.op = to /\ last.arg = arg THEN prev ELSE NoStep

----------------------------------------------------------------------------
(* The server's answers and the commands' payloads *)

Res(type, id, data) == [resourceType |-> type, id |-> id, data |-> data, entry |-> <<>>]

\* a condition the server knows, in two versions of its content
cond(d) == Res("Condition", <<"c1">>, d)
\* a topic composition created locally: it carries a temporary id
draft == Res("Composition", UrnUuid \o <<"n1">>, 1)
\* a resource of a type the store has no container for
alien == Res("Practitioner", <<"p1">>, 1)

Payloads == {cond(1), cond(2), draft, alien}

searchset(rs) ==
    [resourceType |-> "Bundle", type |-> "searchset",
     entry |-> [i \in 1..Len(rs) |-> [resource |-> rs[i]]]]

\* what fhirServer.post may resolve to
transactionResponse == [resourceType |-> "Bundle", type |-> "transaction-response"]
operationOutcome == [resourceType |-> "OperationOutcome"]
PostResults == {transactionResponse, operationOutcome}

Query42 == <<"Condition", "?patient=42">>
QueryObs == <<"Observation", "?patient=42">>

Request(q, flag) == [id |-> q, query |-> q, showLoadingScreen |-> flag]

progressNote == [html |-> "note", markdown |-> "note"]

----------------------------------------------------------------------------
(* The edit overlay: the commands the user interface dispatches on the     *)
(* resources, over what one query loaded                                  *)

GetResults == {searchset(<<cond(1)>>), searchset(<<cond(2), alien>>), cond(2)}

Next ==
    \/ \E r \in Payloads : Edit(r) /\ Command("edit", r)
    \/ \E r \in Payloads : UndoEdits(r) /\ Answer("undoEdits", "edit", r, <<>>)
    \/ \E r \in Payloads : Delete(r) /\ Command("delete", r)
    \/ \E r \in Payloads : UndoDelete(r) /\ Answer("undoDelete", "delete", r, <<>>)
    \/ UndoAll /\ Step("undoAll", <<>>)
    \/ Query(Request(Query42, TRUE)) /\ Step("query", Query42)
    \/ \E request \in fetching, data \in GetResults :
           QueryResolved(request, data) /\ Step("queryResolved", loadedResources(data))
    \/ \E request \in fetching :
           QueryRejected(request) /\ Step("queryRejected", request.query)

Spec == Init /\ [][Next]_vars

----------------------------------------------------------------------------
(* The query coordinator: two query strings, dispatched with or without    *)
(* the loading screen                                                    *)

Queries == {Query42, QueryObs}

NextQuery ==
    \/ \E q \in Queries, flag \in BOOLEAN :
           Query(Request(q, flag)) /\ Step("query", q)
    \/ \E request \in fetching, data \in GetResults :
           QueryResolved(request, data) /\ Step("queryResolved", request.query)
    \/ \E request \in fetching :
           QueryRejected(request) /\ Step("queryRejected", request.query)

SpecQuery == Init /\ [][NextQuery]_vars

----------------------------------------------------------------------------
(* The save coordinator: edits, and saves of them that the server accepts, *)
(* answers without a bundle, or rejects                                   *)

SaveRequests ==
    {[all |-> TRUE],
     [resource |-> cond(1)],
     [filter |-> [kind |-> "isSameId", resource |-> draft]],
     [all |-> TRUE, progressNote |-> progressNote],
     [resource |-> cond(1), progressNote |-> progressNote],
     [filter |-> [kind |-> "isSameId", resource |-> draft],
      progressNote |-> progressNote]}

NextSave ==
    \/ \E r \in {cond(1), draft} : Edit(r) /\ Step("edit", r)
    \/ \E payload \in SaveRequests :
           Save(payload) /\ Command("save", saves + 1)
    \/ \E p \in posting, response \in PostResults :
           /\ SaveResolved(p, response)
           /\ Answer("saveResolved", "save", p.id, [saga |-> p, response |-> response])
    \/ \E p \in posting :
           /\ SaveRejected(p)
           /\ Answer("saveRejected", "save", p.id, [saga |-> p])

SpecSave == Init /\ [][NextSave]_vars

----------------------------------------------------------------------------
(* Properties *)

\* the entry of r's (type, id) in a graph, Undefined when there is none
Entry(resources, r) ==
    IF containerThrows(r) THEN Undefined ELSE getResource(resources, r)

SaveStateIs(name) == fhir.saveState # Null /\ fhir.saveState.state = name

\* the step taken last is the answer `op` to the command before it
Answered(to, op) == prev.op = to /\ last.op = op

\* the step taken last processed the answer to a save that did not succeed
SaveFailed ==
    \/ last.op = "saveRejected"
    \/ last.op = "saveResolved" /\ ~isBundle(last.info.response)

\* C1: the remote get capability is invoked at most once per query string,
\* whatever the sequence of query dispatches
C1_AtMostOneGet == \A q \in DOMAIN gets : gets[q] <= 1

\* a query string dispatched again after it was loaded, with one get so far
C1_Witness ==
    /\ last.op = "query"
    /\ queryState(fhir, last.arg) # Undefined
    /\ queryState(fhir, last.arg).state = "loaded"
    /\ Count(gets, last.arg) = 1

\* C2: the step that processes the server's acceptance of a save of the set
\* S stores every resource of S in resourcesFromServer, leaves none of S in
\* edits and adds exactly 1 to saveGeneration
C2_SavedAtomically ==
    [][(last'.op = "saveResolved" /\ isBundle(last'.info.response))
        => LET S == last'.info.saga.toSave
           IN /\ \A i \in 1..Len(S) :
                    /\ Entry(fhir'.resourcesFromServer, S[i]) = S[i]
                    /\ Entry(fhir'.edits, S[i]) = Undefined
              /\ fhir'.saveGeneration = fhir.saveGeneration + 1]_vars

\* an accepted save of two pending resources has just been processed
C2_Witness ==
    /\ last.op = "saveResolved"
    /\ isBundle(last.info.response)
    /\ Len(last.info.saga.toSave) >= 2
    /\ fhir.saveGeneration = 1

\* C3: when the submission of a save fails, the overlay is what it was
\* immediately before the save command was dispatched
C3_FailedSaveKeepsOverlay ==
    (prev.op = "save" /\ SaveFailed) => fhir.edits = prev.pre.edits

\* C4: a save whose post raises an error or answers with something that is
\* no bundle leaves saveState in error once the answer is processed
C4_FailedSaveIsError == SaveFailed => SaveStateIs("error")

\* the (container, id) pairs a graph holds
Keys(resources) ==
    UNION {{<<c, k>> : k \in DOMAIN resources[c]} : c \in DOMAIN resources}

\* the references that are keys of deletions, as (container, id) pairs
DeletedKeys(state) ==
    {<<containerName(state.deletions[ref].resourceType), state.deletions[ref].id>> :
        ref \in DOMAIN state.deletions}

\* resourcesFromServer overlaid with edits, without what deletions names
Merged(state) ==
    [c \in Containers |->
        LET ids == {k \in DOMAIN state.resourcesFromServer[c] \cup DOMAIN state.edits[c] :
                        <<c, k>> \notin DeletedKeys(state)}
        IN [k \in ids |-> IF k \in DOMAIN state.edits[c]
                          THEN state.edits[c][k]
                          ELSE state.resourcesFromServer[c][k]]]

\* C5: the working view is the server-confirmed graph overlaid with the
\* edits, without the resources deletions names, and holds nothing else
C5_WorkingViewIsMerge == fhir.resourcesWithEdits = Merged(fhir)

\* C6: a resource held by both the server-confirmed graph and the overlay is
\* held by the working view with the overlay's value
C6_OverlayWins ==
    \A key \in Keys(fhir.resourcesFromServer) \cap Keys(fhir.edits) :
        /\ key \in Keys(fhir.resourcesWithEdits)
        /\ fhir.resourcesWithEdits[key[1]][key[2]] = fhir.edits[key[1]][key[2]]

\* C7: a resource whose reference is a key of deletions is absent from the
\* working view
C7_DeletedIsAbsent == DeletedKeys(fhir) \cap Keys(fhir.resourcesWithEdits) = {}

\* C8: edit(r) followed by undoEdits(r) leaves r out of the overlay and the
\* working view's entry of r equal to the server-confirmed one before the
\* edit, absent when there was none
C8_UndoEditsRestores ==
    Answered("edit", "undoEdits")
        => /\ Entry(fhir.edits, last.arg) = Undefined
           /\ Entry(fhir.resourcesWithEdits, last.arg)
                  = Entry(prev.pre.resourcesFromServer, last.arg)

\* C9: delete(r) followed by undoDelete(r), for r of the working view, leaves
\* r in the working view with its server-confirmed payload and its reference
\* out of deletions
C9_UndoDeleteRestores ==
    (Answered("delete", "undoDelete")
        /\ Entry(prev.pre.resourcesWithEdits, last.arg) # Undefined)
        => /\ Entry(fhir.resourcesWithEdits, last.arg) # Undefined
           /\ Entry(fhir.resourcesWithEdits, last.arg)
                  = Entry(fhir.resourcesFromServer, last.arg)
           /\ referenceTo(last.arg).reference \notin DOMAIN fhir.deletions

\* C10: delete(r) followed by undoDelete(r), for r with a pending edit,
\* leaves the overlay, the working view and deletions as before the delete
C10_UndoDeleteReverses ==
    (Answered("delete", "undoDelete")
        /\ Entry(prev.pre.edits, last.arg) # Undefined)
        => /\ fhir.edits = prev.pre.edits
           /\ fhir.resourcesWithEdits = prev.pre.resourcesWithEdits
           /\ fhir.deletions = prev.pre.deletions

\* C11: at most one transaction submission (post) is outstanding at any time,
\* whatever the sequence of save commands
C11_OneOutstandingPost == Cardinality(posting) <= 1

----------------------------------------------------------------------------
(* Edits made while a save awaits the server's answer *)

EditsWhileSaving == {cond(1), cond(2), draft}

NextEditWhileSaving ==
    \/ \E r \in EditsWhileSaving : Edit(r) /\ Command("edit", r)
    \/ \E payload \in {[all |-> TRUE],
                       [filter |-> [kind |-> "isSameId", resource |-> draft]]} :
           Save(payload) /\ Step("save", saves + 1)
    \/ \E p \in posting, response \in PostResults :
           /\ SaveResolved(p, response)
           /\ Answer("saveResolved", "edit", last.arg,
                     [saga |-> p, response |-> response])
    \/ \E p \in posting :
           /\ SaveRejected(p)
           /\ Answer("saveRejected", "edit", last.arg, [saga |-> p])

SpecEditWhileSaving == Init /\ [][NextEditWhileSaving]_vars

\* the pending edit the command before the last step put into the overlay
EditBefore(op) == Answered("edit", op) /\ Entry(prev.pre.edits, last.arg) # last.arg

\* C12: an edit(r) dispatched after a save built its transaction and before
\* the server's confirmation is processed is still in the overlay after the
\* confirmation is processed
C12_EditSurvivesConfirmation ==
    (EditBefore("saveResolved") /\ isBundle(last.info.response))
        => Entry(fhir.edits, last.arg) = last.arg

----------------------------------------------------------------------------
(* The life of one query string *)

\* "absent" for a query string without a state, the name of its state else
queryStateName(state, query) ==
    IF queryState(state, query) = Undefined THEN "absent"
    ELSE queryState(state, query).state

\* C13: a query string goes from absent to loading when it is dispatched,
\* from loading to loaded or to error when its fetch is answered, and changes
\* its state in no other way; loaded and error are final
C13_QueryTransitions ==
    [][\A q \in Queries :
          LET old == queryStateName(fhir, q)
              new == queryStateName(fhir', q)
          IN old # new =>
                \/ old = "absent" /\ new = "loading"
                      /\ last'.op = "query" /\ last'.arg = q
                \/ old = "loading" /\ new = "loaded"
                      /\ last'.op = "queryResolved" /\ last'.arg = q
                \/ old = "loading" /\ new = "error"
                      /\ last'.op \in {"queryResolved", "queryRejected"}
                      /\ last'.arg = q]_vars

\* one query string is loaded, the other in error, and one of them has just
\* been dispatched again
C13_Witness ==
    /\ queryStateName(fhir, Query42) = "loaded"
    /\ queryStateName(fhir, QueryObs) = "error"
    /\ last.op = "query"

----------------------------------------------------------------------------
(* What the server confirms: saves of the pending edits and immediate     *)
(* deletes                                                                 *)

NextCommit ==
    \/ \E r \in {cond(2), draft} : Edit(r) /\ Step("edit", r)
    \/ Save([all |-> TRUE]) /\ Step("save", saves + 1)
    \/ \E p \in posting, response \in PostResults :
           /\ SaveResolved(p, response)
           /\ Answer("saveResolved", "save", p.id, [response |-> response])
    \/ \E p \in posting :
           /\ SaveRejected(p)
           /\ Answer("saveRejected", "save", p.id, <<>>)
    \/ \E r \in {draft, alien} :
           DeleteImmediately(r) /\ Command("deleteImmediately", r)
    \/ \E d \in deleting :
           /\ DeleteResolved(d)
           /\ Answer("deleteResolved", "deleteImmediately", d.resource, <<>>)
    \/ \E d \in deleting :
           /\ DeleteRejected(d)
           /\ Answer("deleteRejected", "deleteImmediately", d.resource, <<>>)

SpecCommit == Init /\ [][NextCommit]_vars

C15_DeleteCommitted ==
    [][last'.op = "deleteResolved"
        => /\ Entry(fhir'.resourcesFromServer, last'.arg) = Undefined
           /\ fhir'.saveGeneration = fhir.saveGeneration + 1]_vars

\* the remote delete of a resource the server-confirmed graph held succeeded
C15_Witness ==
    /\ Answered("deleteImmediately", "deleteResolved")
    /\ Entry(prev.pre.resourcesFromServer, last.arg) # Undefined
    /\ Entry(fhir.resourcesFromServer, last.arg) = Undefined

\* C16: after the remote delete of an immediate delete of r failed, r is
\* absent from the working view and the overlay, and resourcesFromServer's
\* entry of r, saveGeneration and deletions are as before the command
C16_FailedDeleteNotRolledBack ==
    Answered("deleteImmediately", "deleteRejected")
        => /\ Entry(fhir.resourcesWithEdits, last.arg) = Undefined
           /\ Entry(fhir.edits, last.arg) = Undefined
           /\ Entry(fhir.resourcesFromServer, last.arg)
                  = Entry(prev.pre.resourcesFromServer, last.arg)
           /\ fhir.saveGeneration = prev.pre.saveGeneration
           /\ fhir.deletions = prev.pre.deletions

\* the failed delete was of a resource that the server-confirmed graph, the
\* working view and the overlay held
C16_Witness ==
    /\ Answered("deleteImmediately", "deleteRejected")
    /\ Entry(prev.pre.resourcesFromServer, last.arg) # Undefined
    /\ Entry(prev.pre.resourcesWithEdits, last.arg) # Undefined
    /\ Entry(prev.pre.edits, last.arg) # Undefined
    /\ Entry(fhir.resourcesFromServer, last.arg) # Undefined

----------------------------------------------------------------------------
(* The transaction a save submits *)

\* the resources of the entries of a bundle, in their order
bundleResources(bundle) == [i \in 1..Len(bundle.entry) |-> bundle.entry[i].resource]

\* the saga that the save command taken last started
SagaOfLastSave == CHOOSE p \in posting : p.id = last.arg

\* C17: the transaction of a save that carries a progress note holds the
\* synthesized progress-note Composition and the selected pending resources,
\* and nothing else, and the Composition refers to exactly the selected ones
C17_NoteTravelsWithSelection ==
    (last.op = "save" /\ wantsNote(SagaOfLastSave.payload))
        => LET selected == getResourcesToSave(prev.pre, SagaOfLastSave.payload)
               sent == bundleResources(SagaOfLastSave.bundle)
               noteId == UrnUuid \o <<Uuids[last.arg]>>
           IN /\ \E i \in 1..Len(sent) :
                     /\ sent[i].resourceType = "Composition"
                     /\ sent[i].id = noteId
                     /\ Range(sent[i].entry)
                            = {referenceTo(selected[j]) : j \in 1..Len(selected)}
              /\ Range(selected) \subseteq Range(sent)
              /\ Len(sent) = Len(selected) + 1

\* the transaction entry the server needs for r to create it when its id is
\* temporary (urn:uuid:), to replace it by id otherwise
IsUpsertOf(e, r) ==
    /\ e.resource = r
    /\ IF r.id[1] = "urn:uuid:"
       THEN /\ e.request.method = "POST"
            /\ e.request.url = <<r.resourceType>>
            /\ e.fullUrl = r.id
       ELSE /\ e.request.method = "PUT"
            /\ e.request.url = <<r.resourceType, "/">> \o r.id
            /\ e.fullUrl = e.request.url

\* C18: the transaction of a save has exactly one entry per selected
\* resource; the entry of a resource with a temporary id is a POST to the
\* resource type with the temporary id as fullUrl, every other entry a PUT
\* with url and fullUrl resourceType/id
C18_OneEntryPerResource ==
    /\ \A p \in posting :
          /\ Len(p.bundle.entry) = Len(p.toSave)
          /\ \A i \in 1..Len(p.toSave) : IsUpsertOf(p.bundle.entry[i], p.toSave[i])
    /\ last.op = "save"
          => SagaOfLastSave.toSave = getResourcesToSave(fhir, SagaOfLastSave.payload)

\* a transaction with an entry for a new and an entry for a known resource
C18_Witness ==
    \E p \in posting :
        \E i, j \in 1..Len(p.bundle.entry) :
            /\ p.bundle.entry[i].request.method = "POST"
            /\ p.bundle.entry[j].request.method = "PUT"

----------------------------------------------------------------------------
(* The loading screen and the errors of queries *)

\* C19: while a query dispatched with showLoadingScreen is loading, the
\* showLoadingScreen flag of the store is true
C19_LoadingScreenShown == someFlaggedLoading(fhir.queries) => fhir.showLoadingScreen

\* C20: the step that processes the failure of the fetch of q puts q in
\* state error with the cause, raises showErrors, and leaves
\* resourcesFromServer, resourcesWithEdits and edits as they were
C20_FetchFailureRecorded ==
    [][last'.op = "queryRejected"
        => /\ queryStateName(fhir', last'.arg) = "error"
           /\ fhir'.queries[last'.arg].error = "get failed"
           /\ fhir'.showErrors
           /\ fhir'.resourcesFromServer = fhir.resourcesFromServer
           /\ fhir'.resourcesWithEdits = fhir.resourcesWithEdits
           /\ fhir'.edits = fhir.edits]_vars

\* the fetch failed while the overlay and the working view held an edit
C20_Witness ==
    /\ last.op = "queryRejected"
    /\ queryStateName(fhir, last.arg) = "error"
    /\ Keys(fhir.edits) # {}
    /\ Keys(fhir.resourcesWithEdits) # {}

----------------------------------------------------------------------------
(* Immediate deletes of a condition that is also soft-deleted, edited or   *)
(* loaded again before the server confirms                                 *)

\* useFHIR((s) => s.fhir.resourcesFromServer): the graph Timeline hands to
\* its groupers
timelineResources(state) == state.resourcesFromServer

\* one render of Timeline, up to the input of the groupers
RenderTimeline ==
    /\ UNCHANGED <<fhir, fetching, posting, deleting, gets, saves>>
    /\ Step("timelineInput", timelineResources(fhir))

NextDeleteRace ==
    \/ Query(Request(Query42, TRUE)) /\ Step("query", Query42)
    \/ \E request \in fetching :
           /\ QueryResolved(request, searchset(<<cond(1)>>))
           /\ Step("queryResolved", request.query)
    \/ Edit(cond(2)) /\ Step("edit", cond(2))
    \/ Delete(cond(1)) /\ Step("delete", cond(1))
    \/ UndoDelete(cond(1)) /\ Step("undoDelete", cond(1))
    \/ DeleteImmediately(cond(1)) /\ Step("deleteImmediately", cond(1))
    \/ \E d \in deleting : DeleteResolved(d) /\ Step("deleteResolved", d.resource)
    \/ \E d \in deleting : DeleteRejected(d) /\ Step("deleteRejected", d.resource)
    \/ RenderTimeline

SpecDeleteRace == Init /\ [][NextDeleteRace]_vars

\* C21: once the server's confirmation of deleteImmediately(r) is processed,
\* r's reference is no key of deletions
C21_ConfirmedDeleteLeavesDeletions ==
    last.op = "deleteResolved"
        => referenceTo(last.arg).reference \notin DOMAIN fhir.deletions

\* C28: once the server's confirmation of an immediate delete of r is
\* processed, r is absent from resourcesFromServer and from the working view
C28_ConfirmedDeleteRemoves ==
    last.op = "deleteResolved"
        => /\ Entry(fhir.resourcesFromServer, last.arg) = Undefined
           /\ Entry(fhir.resourcesWithEdits, last.arg) = Undefined

----------------------------------------------------------------------------
(* Topics: compositions tagged as topic, and the resources they refer to   *)

\* FHIR.parseRef(ref, resourceType): the id of a reference "Type/id" of the
\* required type, Null for no reference (the empty string stands for an
\* undefined one as well) or one of another shape
parseRef(ref, resourceType) ==
    IF ref = <<>> THEN Null
    ELSE IF Len(ref) >= 2 /\ ref[1] = resourceType /\ ref[2] = "/"
         THEN [resourceType |-> resourceType, id |-> SubSeq(ref, 3, Len(ref))]
         ELSE Null

\* FHIR.parseRef(ref) without a type: ref.split("/"), s[1] is the id (the
\* empty string stands for an undefined id)
parseAnyRef(ref) ==
    IF ref = <<>> THEN Null
    ELSE [resourceType |-> ref[1],
          id |-> IF Len(ref) >= 3 /\ ref[2] = "/" THEN <<ref[3]>> ELSE <<>>]

\* parseRef(...)?.id ?? fallback
idOr(parsed, fallback) ==
    IF parsed = Null \/ parsed.id = <<>> THEN fallback ELSE parsed.id

\* ref?.reference
referenceOf(ref) ==
    IF ref = Undefined \/ "reference" \notin DOMAIN ref THEN <<>> ELSE ref.reference

\* resources[id], undefined for a missing key
lookup(resources, id) == IF id \in DOMAIN resources THEN resources[id] ELSE Undefined

RECURSIVE flatEntries(_)
\* (c.section ?? []).flatMap((section) => section.entry): a section without
\* entries contributes one undefined
flatEntries(sections) ==
    IF sections = <<>> THEN <<>>
    ELSE (IF "entry" \in DOMAIN Head(sections) THEN Head(sections).entry
          ELSE <<Undefined>>) \o flatEntries(Tail(sections))

sectionsOf(c) == IF "section" \in DOMAIN c THEN c.section ELSE <<>>

getResourcesFromComposition(c, resources, resourceType) ==
    LET refs == flatEntries(sectionsOf(c))
        found == [i \in 1..Len(refs) |->
                     lookup(resources, idOr(parseRef(referenceOf(refs[i]), resourceType), <<>>))]
        defined(r) == r # Undefined
    IN SelectSeq(found, defined)

\* hasCode(composition.type, Codes.Composition.Type.Topic.coding[0]); the
\* model keeps the coding of a composition's type as one name
isTopic(composition) == "type" \in DOMAIN composition /\ composition.type = "topic"

loadTopics(compositions, encounters, conditions, prescriptions, tasks) ==
    LET tagged == SelectSeq(Values(compositions), isTopic)
    IN [i \in 1..Len(tagged) |->
           LET composition == tagged[i]
           IN [id |-> composition.id,
               composition |-> composition,
               encounter |->
                   IF "encounter" \in DOMAIN composition
                   THEN lookup(encounters,
                               idOr(parseAnyRef(composition.encounter.reference), <<>>))
                   ELSE Null,
               conditions |-> getResourcesFromComposition(composition, conditions, "Condition"),
               prescriptions |->
                   getResourcesFromComposition(composition, prescriptions, "MedicationRequest"),
               tasks |-> getResourcesFromComposition(composition, tasks, "Task")]]

\* the topics of the working view, as the user interface asks for them
LoadTopics ==
    /\ UNCHANGED <<fhir, fetching, posting, deleting, gets, saves>>
    /\ Step("loadTopics",
            loadTopics(fhir.resourcesWithEdits.compositions,
                       fhir.resourcesWithEdits.encounters,
                       fhir.resourcesWithEdits.conditions,
                       fhir.resourcesWithEdits.medicationRequests,
                       fhir.resourcesWithEdits.tasks))

\* what the server holds: a condition, an encounter, a prescription, a task,
\* and topics that refer to them
enc == Res("Encounter", <<"e1">>, 1)
rx == Res("MedicationRequest", <<"m1">>, 1)
task == Res("Task", <<"k1">>, 1)
patient42 == Res("Patient", <<"42">>, 1)

Topic(id, sections) ==
    [resourceType |-> "Composition", id |-> id, type |-> "topic", section |-> sections]

\* a topic of the condition, the prescription and the task, with a reference
\* to a condition nobody holds, one of another type and an empty one
topicOfAll ==
    Topic(<<"t1">>,
          <<[entry |-> <<referenceTo(cond(1)), referenceTo(rx),
                         [reference |-> <<"Condition", "/", "c9">>],
                         referenceTo(task), [display |-> "nothing"]>>]>>)

\* a topic of the encounter, with a section that has no entries
topicOfEncounter ==
    [Topic(<<"t2">>, <<[title |-> "empty"]>>) EXCEPT !.id = <<"t2">>]
        @@ [encounter |-> referenceTo(enc)]

\* what the user creates: a condition and a topic that refers to it
newCond == Res("Condition", UrnUuid \o <<"n2">>, 1)
newTopic == Topic(UrnUuid \o <<"n3">>, <<[entry |-> <<referenceTo(newCond)>>]>>)

TopicResults ==
    {searchset(<<cond(1)>>),
     searchset(<<cond(1), enc, patient42>>),
     searchset(<<cond(1), enc, rx, task, patient42, topicOfAll>>),
     searchset(<<cond(1), enc, rx, task, patient42, topicOfAll, topicOfEncounter, draft>>)}

\* Codes.Composition.Category: the codings the topics use for a
\* composition's category, of one code system
CategorySystem == "topic-category"
CategoryActive == [coding |-> <<[system |-> CategorySystem, code |-> "active"]>>]
CategoryInactive == [coding |-> <<[system |-> CategorySystem, code |-> "inactive"]>>]

\* the ids uuidv4() gives the compositions the topics saga creates
TopicUuids == <<"a1", "a2", "a3", "a4">>

topicCompositionFromCondition(condition, patient, uuid) ==
    LET active == "clinicalStatus" \in DOMAIN condition
                  /\ condition.clinicalStatus = "active"
    IN [resourceType |-> "Composition",
        id |-> UrnUuid \o <<uuid>>,
        type |-> "topic",
        subject |-> referenceTo(patient),
        category |-> <<IF active THEN CategoryActive ELSE CategoryInactive>>,
        section |-> <<[entry |-> <<referenceTo(condition)>>]>>]

newTopicFromEncounter(encounter, patient, uuid) ==
    [resourceType |-> "Composition",
     id |-> UrnUuid \o <<uuid>>,
     type |-> "topic",
     subject |-> referenceTo(patient),
     category |-> <<CategoryActive>>,
     encounter |-> referenceTo(encounter)]

\* the resources the saga finds no topic for, conditions before encounters
standaloneResources(resources) ==
    LET fromCompositions == loadTopics(resources.compositions, resources.encounters,
                                       resources.conditions, NoEntries, NoEntries)
        conditionsInTopics ==
            UNION {{c.id : c \in Range(t.conditions)} : t \in Range(fromCompositions)}
        encountersInTopics ==
            {t.encounter.id : t \in {u \in Range(fromCompositions) :
                                        u.encounter # Null /\ u.encounter # Undefined}}
        withoutTopic(c) == c.id \notin conditionsInTopics
        withoutEncounterTopic(e) == e.id \notin encountersInTopics
    IN [conditions |-> SelectSeq(Values(resources.conditions), withoutTopic),
        encounters |-> SelectSeq(Values(resources.encounters), withoutEncounterTopic)]

RECURSIVE addAllAutoGenerated(_, _)
addAllAutoGenerated(state, compositions) ==
    IF compositions = <<>> THEN state
    ELSE addAllAutoGenerated(addAutoGenerated(state, Head(compositions)),
                             Tail(compositions))

\* createTopicsForStandaloneResourcesSaga once the resources are loaded;
\* referenceTo(patients[patientId]) throws for a patient that is not in the
\* working view, and the saga ends before its first put
createTopicsForStandaloneResources(state) ==
    LET resources == state.resourcesWithEdits
        alone == standaloneResources(resources)
        patient == lookup(resources.patients, state.patientId)
        n == Len(alone.conditions)
        newCompositions ==
            [i \in 1..n |->
                topicCompositionFromCondition(alone.conditions[i], patient, TopicUuids[i])]
            \o [i \in 1..Len(alone.encounters) |->
                   newTopicFromEncounter(alone.encounters[i], patient, TopicUuids[n + i])]
    IN IF n + Len(alone.encounters) > 0 /\ patient = Undefined THEN state
       ELSE addAllAutoGenerated(state, newCompositions)

\* fhirServer.get resolved while the topics saga may be waiting in
\* waitForResourcesToLoadSaga: it goes on after the queryLoaded that leaves
\* showLoadingScreen false
QueryResolvedWithTopics(request, data) ==
    /\ request \in fetching
    /\ fhir' = IF queryLoadedThrows(fhir, request, loadedResources(data))
               THEN queryError(fhir, request, "No state object for resource")
               ELSE LET loaded == queryLoaded(fhir, request, loadedResources(data))
                    IN IF fhir.showLoadingScreen /\ ~loaded.showLoadingScreen
                       THEN createTopicsForStandaloneResources(loaded)
                       ELSE loaded
    /\ fetching' = fetching \ {request}
    /\ UNCHANGED <<posting, deleting, gets, saves>>

\* FHIR.parseRef applied to the reference FHIR.referenceTo makes for r, with
\* r's type as the expected type or without one
ParseReference(r, withType) ==
    /\ UNCHANGED <<fhir, fetching, posting, deleting, gets, saves>>
    /\ Step("parseRef",
            [resource |-> r,
             parsed |-> IF withType
                        THEN parseRef(referenceTo(r).reference, r.resourceType)
                        ELSE parseAnyRef(referenceTo(r).reference)])

NextTopics ==
    \/ Query(Request(Query42, TRUE)) /\ Step("query", Query42)
    \/ \E request \in fetching, data \in TopicResults :
           /\ QueryResolvedWithTopics(request, data)
           /\ Step("queryResolved", request.query)
    \/ \E r \in {newCond, newTopic} : Edit(r) /\ Step("edit", r)
    \/ LoadTopics
    \/ \E r \in {cond(1), enc, newCond}, withType \in BOOLEAN : ParseReference(r, withType)

SpecTopics == Init /\ [][NextTopics]_vars

\* the references a composition's section entries carry
entryReferences(c) ==
    {referenceOf(e) : e \in Range(flatEntries(sectionsOf(c)))} \ {<<>>}

\* the resources of a bucket that the composition's section entries reference
Referenced(c, bucket) ==
    {r \in Range(Values(bucket)) : referenceTo(r).reference \in entryReferences(c)}

TaggedCompositions ==
    {c \in Range(Values(fhir.resourcesWithEdits.compositions)) : isTopic(c)}

\* C22: loadTopics gives one topic per composition tagged as a topic, and a
\* topic's conditions, prescriptions and tasks are the resources of the bucket
\* that the composition's section entries reference
C22_TopicsResolveReferences ==
    last.op = "loadTopics" =>
        /\ Len(last.arg) = Cardinality(TaggedCompositions)
        /\ {t.composition : t \in Range(last.arg)} = TaggedCompositions
        /\ \A t \in Range(last.arg) :
              /\ Range(t.conditions)
                    = Referenced(t.composition, fhir.resourcesWithEdits.conditions)
              /\ Range(t.prescriptions)
                    = Referenced(t.composition, fhir.resourcesWithEdits.medicationRequests)
              /\ Range(t.tasks)
                    = Referenced(t.composition, fhir.resourcesWithEdits.tasks)

\* the compositions the topics saga added
Synthesized ==
    {c \in Range(Values(fhir.resourcesWithEdits.compositions)) :
        \E i \in 1..Len(TopicUuids) : c.id = UrnUuid \o <<TopicUuids[i]>>}

\* the references of the compositions in cs, by section entry or by encounter
TopicReferences(cs) ==
    UNION {entryReferences(c) \cup
           (IF "encounter" \in DOMAIN c THEN {c.encounter.reference} ELSE {}) : c \in cs}

StandaloneTopicsMade ==
    /\ \A r \in Range(Values(fhir.resourcesWithEdits.conditions))
            \cup Range(Values(fhir.resourcesWithEdits.encounters)) :
          Cardinality({c \in Synthesized :
                          referenceTo(r).reference \in TopicReferences({c})})
             = IF referenceTo(r).reference
                    \in TopicReferences(TaggedCompositions \ Synthesized)
               THEN 0 ELSE 1
    /\ \A c \in Synthesized :
          /\ getResource(fhir.edits, c) = Undefined
          /\ getResource(fhir.resourcesWithEdits, c) = c

\* C23: the step that finishes the load leaves one composition of the saga
\* for every condition and every encounter of the working view that no other
\* topic references and none for a referenced one, each of them in the working
\* view and not in the overlay
C23_OneTopicPerStandaloneResource ==
    [][(fhir.showLoadingScreen /\ ~fhir'.showLoadingScreen) => StandaloneTopicsMade']_vars

----------------------------------------------------------------------------
\* The timeline: items sorted by their time stamp and grouped by date
\* (Timeline.tsx).  A string of digits is the sequence of its digits.

MaxItems == 3

RECURSIVE toString(_)
\* Number.prototype.toString of a natural number
toString(n) == IF n < 10 THEN <<n>> ELSE toString(n \div 10) \o <<n % 10>>

RECURSIVE padStart(_, _, _)
padStart(s, targetLength, fill) ==
    IF Len(s) >= targetLength THEN s ELSE padStart(<<fill>> \o s, targetLength, fill)

\* a faulty key: month and day without padding
dateKeyUnpadded(dateTime) ==
    toString(dateTime.year) \o toString(dateTime.month) \o toString(dateTime.day)

\* `${dateTime.year}${month.toString().padStart(2, "0")}${day.toString().padStart(2, "0")}`
dateKey(dateTime) ==
    toString(dateTime.year) \o padStart(toString(dateTime.month), 2, 0)
        \o padStart(toString(dateTime.day), 2, 0)

RECURSIVE localeCompare(_, _)
\* String.prototype.localeCompare on strings of digits: -1, 0 or 1
localeCompare(a, b) ==
    IF a = <<>> /\ b = <<>> THEN 0
    ELSE IF a = <<>> THEN -1
    ELSE IF b = <<>> THEN 1
    ELSE IF Head(a) < Head(b) THEN -1
    ELSE IF Head(a) > Head(b) THEN 1
    ELSE localeCompare(Tail(a), Tail(b))

\* the comparator of items.sort: negative when a goes before b
compareItems(a, b, oldestFirst) ==
    localeCompare(b.dateTimeString, a.dateTimeString) * (IF oldestFirst THEN -1 ELSE 1)

RECURSIVE insertSorted(_, _, _)
insertSorted(sorted, item, oldestFirst) ==
    IF sorted = <<>> THEN <<item>>
    ELSE IF compareItems(item, Head(sorted), oldestFirst) < 0 THEN <<item>> \o sorted
    ELSE <<Head(sorted)>> \o insertSorted(Tail(sorted), item, oldestFirst)

RECURSIVE sortItems(_, _)
\* Array.prototype.sort, which is stable
sortItems(items, oldestFirst) ==
    IF items = <<>> THEN <<>>
    ELSE insertSorted(sortItems(SubSeq(items, 1, Len(items) - 1), oldestFirst),
                      items[Len(items)], oldestFirst)

\* createSearcher(searchingFor): an item is kept when its text is the one
\* searched for
createSearcher(searchingFor, item) == item.text = searchingFor

RECURSIVE groupByDate(_, _)
\* the Map of the loop, in insertion order: a sequence of [date, items]
groupByDate(map, filteredItems) ==
    IF filteredItems = <<>> THEN map
    ELSE LET item == Head(filteredItems)
             date == dateKey(item.dateTime)
             at == {i \in 1..Len(map) : map[i].date = date}
         IN groupByDate(IF at # {}
                        THEN [i \in 1..Len(map) |->
                                 IF i \in at
                                 THEN [map[i] EXCEPT !.items = Append(@, item)]
                                 ELSE map[i]]
                        ELSE Append(map, [date |-> date, items |-> <<item>>]),
                        Tail(filteredItems))

\* one render of Timeline: the items of the groupers, sorted, filtered when a
\* search is active, and grouped
Timeline(grouped, oldestFirst, searchingFor) ==
    LET items == sortItems(grouped, oldestFirst)
        keep(item) == createSearcher(searchingFor, item)
        filteredItems == IF searchingFor # <<>> THEN SelectSeq(items, keep) ELSE items
    IN /\ UNCHANGED <<fhir, fetching, posting, deleting, gets, saves>>
       /\ Step("timeline", [grouped |-> grouped,
                            oldestFirst |-> oldestFirst,
                            filteredItems |-> filteredItems,
                            dateGroups |-> groupByDate(<<>>, filteredItems)])

TimelineItem(id, month, day, hour, text) ==
    [id |-> id,
     dateTime |-> [year |-> 2024, month |-> month, day |-> day, hour |-> hour],
     dateTimeString |-> toString(2024) \o padStart(toString(month), 2, 0)
                           \o padStart(toString(day), 2, 0) \o padStart(toString(hour), 2, 0),
     text |-> text]

TimelineItems ==
    {TimelineItem("a", 1, 12, 10, <<"note">>), TimelineItem("b", 1, 12, 9, <<"observation">>),
     TimelineItem("c", 11, 2, 8, <<"note">>), TimelineItem("d", 1, 13, 8, <<"observation">>)}

\* the sequences of at most n different items
RECURSIVE Arrangements(_)
Arrangements(n) ==
    IF n = 0 THEN {<<>>}
    ELSE Arrangements(n - 1) \cup
         {Append(s, item) : s \in {t \in Arrangements(n - 1) : Len(t) = n - 1},
                            item \in TimelineItems}

NextTimeline ==
    \E grouped \in {s \in Arrangements(MaxItems) :
                       \A i, j \in 1..Len(s) : i # j => s[i] # s[j]},
       oldestFirst \in BOOLEAN, searchingFor \in {<<>>, <<"note">>} :
        Timeline(grouped, oldestFirst, searchingFor)

SpecTimeline == Init /\ [][NextTimeline]_vars

SameDate(a, b) ==
    /\ a.dateTime.year = b.dateTime.year
    /\ a.dateTime.month = b.dateTime.month
    /\ a.dateTime.day = b.dateTime.day

FirstSeen(items, item) == CHOOSE i \in 1..Len(items) :
    /\ SameDate(items[i], item)
    /\ \A j \in 1..(i - 1) : ~SameDate(items[j], item)

\* C24: the date groups partition the filtered, sorted items by calendar
\* date: a group's key is yyyymmdd, a group holds, in the items' order, all
\* items of its date and so is not empty, the groups come in the order their
\* dates are first seen, and under the default order a group's items go from
\* the newest to the oldest
C24_GroupedByDate ==
    last.op = "timeline" =>
        LET items == last.arg.filteredItems
            groups == last.arg.dateGroups
        IN /\ \A item \in Range(items) : \E g \in Range(groups) : item \in Range(g.items)
           /\ \A i \in 1..Len(groups) :
                 LET g == groups[i]
                     ofDate(item) == SameDate(item, g.items[1])
                 IN /\ g.items # <<>>
                    /\ g.items = SelectSeq(items, ofDate)
                    /\ g.date = toString(g.items[1].dateTime.year * 10000
                                            + g.items[1].dateTime.month * 100
                                            + g.items[1].dateTime.day)
                    /\ \A j \in (i + 1)..Len(groups) :
                          FirstSeen(items, g.items[1]) < FirstSeen(items, groups[j].items[1])
                    /\ ~last.arg.oldestFirst =>
                          \A m \in 1..(Len(g.items) - 1) :
                             localeCompare(g.items[m].dateTimeString,
                                           g.items[m + 1].dateTimeString) >= 0

\* a render under the default order that put a newer date in a first group
\* and two items of an older date in a second one
C24_Witness ==
    /\ last.op = "timeline"
    /\ Len(last.arg.dateGroups) = 2
    /\ Len(last.arg.dateGroups[2].items) = 2
    /\ ~last.arg.oldestFirst

----------------------------------------------------------------------------
\* Tracking lists and the unread marks (listAdd, listRemove, updateUnread,
\* markRead, markUnread).  state.unread is the set of its keys.

MaxEntries == 2

\* list.entry ?? []
entriesOf(list) == IF "entry" \in DOMAIN list THEN list.entry ELSE <<>>

\* state.resourcesWithEdits.lists[payload.list.id] is undefined and
\* list.entry a TypeError
listThrows(state, payload) ==
    payload.list.id \notin DOMAIN state.resourcesWithEdits.lists

\* the list of the working view with its entries replaced, stored as edit does
withEntries(state, payload, entry) ==
    LET list == [state.resourcesWithEdits.lists[payload.list.id] EXCEPT !.entry = entry]
    IN [state EXCEPT !.edits = setResource(@, list),
                     !.resourcesWithEdits = setResource(@, list),
                     !.saveState = Null]

listAdd(state, payload) ==
    LET list == state.resourcesWithEdits.lists[payload.list.id]
    IN withEntries(state, payload,
                   entriesOf(list) \o <<[item |-> referenceTo(payload.add)]>>)

\* Array.prototype.findIndex from 1, 0 when no entry is found
findIndex(entry, toRemove) ==
    LET at == {i \in 1..Len(entry) : referenceOf(entry[i].item) = toRemove}
    IN IF at = {} THEN 0 ELSE CHOOSE i \in at : \A j \in at : i <= j

\* what Array.prototype.splice(index, 1) returns: the elements it removed
splice(entry, index) == <<entry[index]>>

listRemove(state, payload) ==
    LET toRemove == referenceTo(payload.remove).reference
        list == state.resourcesWithEdits.lists[payload.list.id]
        index == findIndex(entriesOf(list), toRemove)
    IN withEntries(state, payload,
                   IF index >= 1 THEN splice(entriesOf(list), index)
                   ELSE entriesOf(list))

\* a faulty updateUnread: the marks of before are kept
updateUnreadMerges(state, payload) ==
    [state EXCEPT !.unread =
        @ \cup ({referenceOf(e.item) : e \in Range(entriesOf(payload))} \ {<<>>})]

updateUnread(state, payload) ==
    [state EXCEPT !.unread =
        {referenceOf(e.item) : e \in Range(entriesOf(payload))} \ {<<>>}]

markRead(state, payload) == [state EXCEPT !.unread = @ \ {typeId(payload)}]

markUnread(state, payload) == [state EXCEPT !.unread = @ \cup {typeId(payload)}]

\* the entries of a list as the working view has them
workingEntries(state, list) ==
    IF list.id \in DOMAIN state.resourcesWithEdits.lists
    THEN entriesOf(state.resourcesWithEdits.lists[list.id]) ELSE <<>>

ListAdd(list, add) ==
    /\ Len(workingEntries(fhir, list)) < MaxEntries
    /\ fhir' = Reduced(fhir, listThrows(fhir, [list |-> list, add |-> add]),
                       listAdd(fhir, [list |-> list, add |-> add]))
    /\ UNCHANGED <<fetching, posting, deleting, gets, saves>>

ListRemove(list, remove) ==
    /\ fhir' = Reduced(fhir, listThrows(fhir, [list |-> list, remove |-> remove]),
                       listRemove(fhir, [list |-> list, remove |-> remove]))
    /\ UNCHANGED <<fetching, posting, deleting, gets, saves>>

UpdateUnread(list) ==
    /\ fhir' = updateUnread(fhir, list)
    /\ UNCHANGED <<fetching, posting, deleting, gets, saves>>

MarkRead(resource) ==
    /\ fhir' = markRead(fhir, resource)
    /\ UNCHANGED <<fetching, posting, deleting, gets, saves>>

MarkUnread(resource) ==
    /\ fhir' = markUnread(fhir, resource)
    /\ UNCHANGED <<fetching, posting, deleting, gets, saves>>

\* a tracking list of the server, without entries
list1 == Res("List", <<"l1">>, 1)

\* a list as the server may hold it: an entry for the condition, one for the
\* encounter and one whose item has no reference
inbox ==
    [Res("List", <<"l2">>, 1) EXCEPT
        !.entry = <<[item |-> referenceTo(cond(1))], [item |-> referenceTo(enc)],
                    [item |-> [display |-> "nothing"]]>>]

\* the lists the user interface may hand to updateUnread: the ones of the
\* working view, or one just fetched
UnreadLists(state) == Range(Values(state.resourcesWithEdits.lists)) \cup {list1, inbox}

Listed == {cond(1), enc, newCond}

NextLists ==
    \/ Query(Request(Query42, TRUE)) /\ Step("query", Query42)
    \/ \E request \in fetching :
           /\ QueryResolved(request, searchset(<<cond(1), list1>>))
           /\ Step("queryResolved", request.query)
    \/ \E r \in Listed :
           /\ ListAdd(list1, r)
           /\ Step("listAdd", [list |-> list1, resource |-> r,
                               before |-> workingEntries(fhir, list1)])
    \/ \E r \in Listed :
           /\ ListRemove(list1, r)
           /\ Step("listRemove", [list |-> list1, resource |-> r,
                                  before |-> workingEntries(fhir, list1)])
    \/ \E list \in UnreadLists(fhir) :
           /\ UpdateUnread(list)
           /\ Step("updateUnread", [list |-> list, before |-> fhir.unread])
    \/ \E r \in {cond(1), enc} : MarkRead(r) /\ Step("markRead", r)
    \/ \E r \in {cond(1), task} : MarkUnread(r) /\ Step("markUnread", r)

SpecLists == Init /\ [][NextLists]_vars

\* C25: after updateUnread(list) the unread set is the set of the references
\* of the list's entries, whatever it held before
C25_UnreadReplaced ==
    last.op = "updateUnread" =>
        /\ \A i \in 1..Len(entriesOf(last.arg.list)) :
              LET item == entriesOf(last.arg.list)[i].item
              IN "reference" \in DOMAIN item => item.reference \in fhir.unread
        /\ \A ref \in fhir.unread :
              \E i \in 1..Len(entriesOf(last.arg.list)) :
                 LET item == entriesOf(last.arg.list)[i].item
                 IN "reference" \in DOMAIN item /\ item.reference = ref

\* updateUnread has replaced marks that are not in its list by the entries
\* of the list
C25_Witness ==
    /\ last.op = "updateUnread"
    /\ last.arg.before \ fhir.unread # {}
    /\ fhir.unread \ last.arg.before # {}

\* the entries without the first one that references the resource
RECURSIVE without(_, _)
without(entry, ref) ==
    IF entry = <<>> THEN <<>>
    ELSE IF referenceOf(Head(entry).item) = ref THEN Tail(entry)
    ELSE <<Head(entry)>> \o without(Tail(entry), ref)

\* C26: listRemove takes the entry that references r out of the list and
\* keeps the others in order, listAdd appends one entry for r; the list that
\* results is in the overlay and in the working view, and saveState is null
C26_ListEntriesEdited ==
    (last.op \in {"listAdd", "listRemove"}
     /\ last.arg.list.id \in DOMAIN fhir.resourcesWithEdits.lists) =>
        LET ref == referenceTo(last.arg.resource)
            stored == fhir.resourcesWithEdits.lists[last.arg.list.id]
        IN /\ entriesOf(stored) = IF last.op = "listAdd"
                                  THEN Append(last.arg.before, [item |-> ref])
                                  ELSE without(last.arg.before, ref.reference)
           /\ getResource(fhir.edits, stored) = stored
           /\ fhir.saveState = Null

\* C27: when no save is waiting for the server's answer, saveState is not
\* 'saving'
C27_SavingOnlyWhileOutstanding == posting = {} => ~SaveStateIs("saving")

----------------------------------------------------------------------------
\* All commands of the slice over one condition, one tracking list and a
\* resource of a type without container; the user waits for the server's
\* answer before the next command

\* what the query may resolve to: the condition and the list, alone or with
\* a Practitioner between them
FrameResults == {searchset(<<cond(1), list1>>), searchset(<<cond(1), alien, list1>>)}

\* no request to the server is under way
Idle == fetching = {} /\ posting = {} /\ deleting = {}

\* a list that names the condition
listOfOne == [list1 EXCEPT !.entry = <<[item |-> referenceTo(cond(1))]>>]

\* the user interface offers the addition for a resource that is not listed
NotListed(list, r) ==
    findIndex(workingEntries(fhir, list), referenceTo(r).reference) = 0

NextFrame ==
    \/ Idle /\ Query(Request(Query42, TRUE)) /\ Step("query", <<>>)
    \/ \E request \in fetching, data \in FrameResults :
           QueryResolved(request, data) /\ Step("queryResolved", loadedResources(data))
    \/ \E r \in {cond(2), alien} : Idle /\ Edit(r) /\ Step("edit", r)
    \/ \E r \in {cond(2), alien} :
           Idle /\ AddAutoGenerated(r) /\ Step("addAutoGenerated", r)
    \/ Idle /\ UndoEdits(cond(2)) /\ Step("undoEdits", <<>>)
    \/ Idle /\ UndoAll /\ Step("undoAll", <<>>)
    \/ \E r \in {cond(1), alien} : Idle /\ Delete(r) /\ Step("delete", r)
    \/ Idle /\ UndoDelete(cond(1)) /\ Step("undoDelete", <<>>)
    \/ Idle /\ DeleteImmediately(cond(1)) /\ Step("deleteImmediately", <<>>)
    \/ \E d \in deleting : DeleteResolved(d) /\ Step("deleteResolved", <<>>)
    \/ Idle /\ NotListed(list1, cond(1)) /\ ListAdd(list1, cond(1))
            /\ Step("listAdd", <<>>)
    \/ Idle /\ ListRemove(list1, cond(1)) /\ Step("listRemove", <<>>)
    \/ Idle /\ Save([all |-> TRUE]) /\ Step("save", <<>>)
    \/ \E p \in posting :
           SaveResolved(p, transactionResponse) /\ Step("saveResolved", <<>>)
    \/ Idle /\ UpdateUnread(listOfOne) /\ Step("updateUnread", <<>>)
    \/ Idle /\ MarkRead(cond(1)) /\ Step("markRead", <<>>)
    \/ Idle /\ MarkUnread(cond(1)) /\ Step("markUnread", <<>>)

SpecFrame == Init /\ [][NextFrame]_vars

\* C29: a command whose reducer meets a resource of a type without container
\* changes nothing: edit, addAutoGenerated and delete leave the state as it
\* was, and a query result that holds such a resource among others inserts
\* none of them, keeps every graph and is recorded as the query's error
C29_UnrecognizedTypeFailsWhole ==
    [][/\ (last'.op \in {"edit", "addAutoGenerated", "delete"} /\ last'.arg = alien)
            => fhir' = fhir
       /\ (last'.op = "queryResolved" /\ alien \in Range(last'.arg))
            => /\ \A field \in DOMAIN fhir \ {"queries", "showErrors"} :
                     fhir'[field] = fhir[field]
               /\ fhir'.queries[Query42].state = "error"]_vars

\* a query result with the condition, a Practitioner and the list has been
\* processed, and the graphs hold neither the condition nor the list
C29_Witness ==
    /\ last.op = "queryResolved"
    /\ alien \in Range(last.arg)
    /\ cond(1) \in Range(last.arg)
    /\ fhir.resourcesFromServer = emptyResources
    /\ fhir.queries[Query42].state = "error"

\* C30: resourcesFromServer changes only in a step that processes a query
\* result, a confirmed save or a confirmed immediate delete
C30_ServerGraphFrame ==
    [][fhir'.resourcesFromServer # fhir.resourcesFromServer
         => last'.op \in {"queryResolved", "saveResolved", "deleteResolved"}]_vars

\* listAdd has changed the list of the working view and of the overlay, and
\* the list of the server is as it was loaded
C30_Witness ==
    /\ last.op = "listAdd"
    /\ list1.id \in DOMAIN fhir.resourcesFromServer.lists
    /\ fhir.resourcesFromServer.lists[list1.id] = list1
    /\ fhir.resourcesWithEdits.lists[list1.id] # list1
    /\ fhir.edits.lists[list1.id] # list1

----------------------------------------------------------------------------
\* Edits of loaded and of auto-generated resources, before, during and
\* after a save

\* the auto-generated composition with the user's change
draftEdited == Res("Composition", UrnUuid \o <<"n1">>, 2)

NextEdit ==
    \/ Query(Request(Query42, TRUE)) /\ Step("query", Query42)
    \/ \E request \in fetching :
           /\ QueryResolved(request, searchset(<<cond(1)>>))
           /\ Step("queryResolved", request.query)
    \/ AddAutoGenerated(draft) /\ Step("addAutoGenerated", draft)
    \/ \E r \in {cond(2), draftEdited} : Edit(r) /\ Command("edit", r)
    \/ UndoAll /\ Command("undoAll", <<>>)
    \/ posting = {} /\ Save([all |-> TRUE]) /\ Step("save", saves + 1)
    \/ \E p \in posting :
           SaveResolved(p, transactionResponse) /\ Step("saveResolved", p.id)
    \/ \E p \in posting : SaveRejected(p) /\ Step("saveRejected", p.id)

SpecEdit == Init /\ [][NextEdit]_vars

\* C31: after edit(r) the overlay and the working view hold r under r's type
\* and id and saveState is null, whether or not a save is under way and
\* whether or not r was in the overlay before
C31_EditStoresInBoth ==
    last.op = "edit" =>
        /\ Entry(fhir.edits, last.arg) = last.arg
        /\ Entry(fhir.resourcesWithEdits, last.arg) = last.arg
        /\ fhir.saveState = Null

\* the first edit of an auto-generated composition, made while a save awaits
\* the server's answer: before it the composition was in the working view
\* only
C31_Witness ==
    /\ last.op = "edit"
    /\ posting # {}
    /\ last.arg = draftEdited
    /\ Entry(prev.pre.resourcesWithEdits, draft) = draft
    /\ Entry(prev.pre.edits, draft) = Undefined
    /\ Entry(fhir.edits, draft) = draftEdited

\* C32: undoAll leaves every bucket of the overlay empty and every other
\* part of the state as it was
C32_UndoAllClearsOverlayOnly ==
    [][last'.op = "undoAll" => fhir' = [fhir EXCEPT !.edits = emptyResources]]_vars

\* undoAll has emptied an overlay that held the edited condition, and the
\* working view still holds the edited condition
C32_Witness ==
    /\ last.op = "undoAll"
    /\ Entry(prev.pre.edits, cond(2)) = cond(2)
    /\ fhir.edits = emptyResources
    /\ Entry(fhir.resourcesWithEdits, cond(2)) = cond(2)
    /\ Entry(fhir.resourcesFromServer, cond(1)) = cond(1)

\* every entry of the graph is stored under its own id in the bucket of its
\* own type
KeyedByTypeAndId(resources) ==
    \A c \in DOMAIN resources : \A k \in DOMAIN resources[c] :
        /\ resources[c][k].id = k
        /\ containerName(resources[c][k].resourceType) = c

\* C33: in each of the three graphs every entry of a bucket is a resource of
\* the bucket's type stored under its id
C33_OneBucketPerResource ==
    /\ KeyedByTypeAndId(fhir.resourcesFromServer)
    /\ KeyedByTypeAndId(fhir.edits)
    /\ KeyedByTypeAndId(fhir.resourcesWithEdits)

\* after listRemove the three graphs hold the list, and the graph of the
\* server and the working view hold a condition as well
C33_Witness ==
    /\ last.op = "listRemove"
    /\ DOMAIN fhir.edits.lists # {}
    /\ DOMAIN fhir.resourcesFromServer.lists # {}
    /\ DOMAIN fhir.resourcesFromServer.conditions # {}
    /\ DOMAIN fhir.resourcesWithEdits.conditions # {}
    /\ DOMAIN fhir.resourcesWithEdits.lists # {}

\* C34: parsing the reference made for a resource gives the resource's type
\* and id
C34_ReferenceRoundTrip ==
    last.op = "parseRef" =>
        /\ last.arg.parsed # Null
        /\ last.arg.parsed.resourceType = last.arg.resource.resourceType
        /\ last.arg.parsed.id = last.arg.resource.id

----------------------------------------------------------------------------
\* The status of a topic (isActive, isEncounterActive, activeStatus)

\* encounter.status, "" when the encounter has none
statusOf(encounter) == IF "status" \in DOMAIN encounter THEN encounter.status ELSE ""

\* a faulty isEncounterActive: a cancelled encounter counts as active
isEncounterActiveUnlessFinished(encounter) == statusOf(encounter) # "finished"

isEncounterActive(encounter) == statusOf(encounter) \notin {"finished", "cancelled"}

\* c.coding?.[0], Undefined when there is none
firstCoding(c) ==
    IF "coding" \in DOMAIN c /\ c.coding # <<>> THEN c.coding[1] ELSE Undefined

\* the codes of the categories whose first coding is of the topics' system
ourCodes(composition) ==
    LET categories == IF "category" \in DOMAIN composition
                      THEN composition.category ELSE <<>>
        ours(c) == /\ firstCoding(c) # Undefined
                   /\ "system" \in DOMAIN firstCoding(c)
                   /\ firstCoding(c).system = CategorySystem
        ourCategories == SelectSeq(categories, ours)
    IN [i \in 1..Len(ourCategories) |->
           IF "code" \in DOMAIN firstCoding(ourCategories[i])
           THEN firstCoding(ourCategories[i]).code ELSE ""]

activeStatus(topic) ==
    IF topic.encounter # Null /\ topic.encounter # Undefined
    THEN IF isEncounterActive(topic.encounter) THEN "active" ELSE "inactive"
    ELSE IF "active" \in Range(ourCodes(topic.composition)) THEN "active"
    ELSE IF "inactive" \in Range(ourCodes(topic.composition)) THEN "inactive"
    ELSE "unknown"

isActive(topic) == activeStatus(topic) = "active"

\* the encounter in its states, and without a status
EncounterStates ==
    {enc} \cup {enc @@ [status |-> s] :
                   s \in {"planned", "in-progress", "onleave", "finished", "cancelled"}}

\* a category of another code system, and one whose first coding is of
\* another system
CategoryElsewhere == [coding |-> <<[system |-> "other", code |-> "active"]>>]
CategorySecond ==
    [coding |-> <<[system |-> "other", code |-> "x"],
                  [system |-> CategorySystem, code |-> "inactive"]>>]

Categories ==
    {<<>>, <<CategoryActive>>, <<CategoryInactive>>, <<CategoryInactive, CategoryActive>>,
     <<CategoryElsewhere>>, <<CategorySecond>>, <<[text |-> "uncoded"]>>}

\* a topic composition without encounter, with the encounter, or with an
\* encounter nobody holds
StatusTopics ==
    {Topic(<<"t1">>, <<>>) @@ [category |-> cs] : cs \in Categories}
    \cup {Topic(<<"t1">>, <<>>) @@ [category |-> cs, encounter |-> ref] :
             cs \in Categories,
             ref \in {referenceTo(enc), [reference |-> <<"Encounter", "/", "e9">>]}}

\* the status of the topic loadTopics makes of the composition
ActiveStatus(composition, encounter) ==
    LET topic == loadTopics(Put(NoEntries, composition.id, composition),
                            Put(NoEntries, encounter.id, encounter),
                            NoEntries, NoEntries, NoEntries)[1]
    IN /\ UNCHANGED <<fhir, fetching, posting, deleting, gets, saves>>
       /\ Step("activeStatus", [encounter |-> encounter, topic |-> topic,
                                status |-> activeStatus(topic),
                                isActive |-> isActive(topic)])

NextStatus ==
    \E composition \in StatusTopics, encounter \in EncounterStates :
        ActiveStatus(composition, encounter)

SpecStatus == Init /\ [][NextStatus]_vars

\* the topic has a category whose first coding is of the topics' system and
\* has the code
HasCategoryCode(topic, code) ==
    /\ "category" \in DOMAIN topic.composition
    /\ \E i \in 1..Len(topic.composition.category) :
          LET c == topic.composition.category[i]
          IN /\ "coding" \in DOMAIN c
             /\ c.coding[1].system = CategorySystem
             /\ c.coding[1].code = code

\* C35: the status of a topic with a resolved encounter is inactive for an
\* encounter that is finished or cancelled and active otherwise, whatever the
\* category; without one it is the category's code, and unknown exactly when
\* there is neither a resolved encounter nor a category code active or
\* inactive
C35_StatusFromEncounterThenCategory ==
    last.op = "activeStatus" =>
        LET topic == last.arg.topic
            status == last.arg.status
            resolved == topic.encounter # Null /\ topic.encounter # Undefined
        IN /\ resolved =>
                 status = IF "status" \in DOMAIN topic.encounter
                             /\ topic.encounter.status \in {"finished", "cancelled"}
                          THEN "inactive" ELSE "active"
           /\ (~resolved /\ HasCategoryCode(topic, "active")) => status = "active"
           /\ (~resolved /\ ~HasCategoryCode(topic, "active")
                 /\ HasCategoryCode(topic, "inactive")) => status = "inactive"
           /\ status = "unknown" <=>
                 (~resolved /\ ~HasCategoryCode(topic, "active")
                            /\ ~HasCategoryCode(topic, "inactive"))
           /\ last.arg.isActive <=> status = "active"

\* a topic with the category active whose encounter is cancelled is inactive
C35_Witness ==
    /\ last.op = "activeStatus"
    /\ last.arg.topic.encounter # Null
    /\ last.arg.topic.encounter # Undefined
    /\ statusOf(last.arg.topic.encounter) = "cancelled"
    /\ HasCategoryCode(last.arg.topic, "active")
    /\ last.arg.status = "inactive"

\* C36: the graph the timeline's items are computed from is the working
\* view: it has the pending edits and lacks what delete or deleteImmediately
\* removed
C36_TimelineOfWorkingView ==
    last.op = "timelineInput" => last.arg = fhir.resourcesWithEdits

\* ---------------------------------------------------------------------------
\* The topics saga waiting for the first load, with every get answered
\* ---------------------------------------------------------------------------

\* some fhirServer.get of a dispatched query comes back, resolved or rejected
QueryAnswered ==
    \/ \E request \in fetching,
          data \in {searchset(<<cond(1)>>), searchset(<<cond(1), enc, patient42>>)} :
           /\ QueryResolvedWithTopics(request, data)
           /\ Step("queryResolved", request.query)
    \/ \E request \in fetching : QueryRejected(request) /\ Step("queryRejected", request.query)

NextLoad ==
    \/ \E q \in {Query42, QueryObs}, flag \in BOOLEAN :
           Query(Request(q, flag)) /\ Step("query", q)
    \/ QueryAnswered

\* redux-saga runs onQuerySaga to its end for every query action: each get
\* that was called is answered
SpecLoad == Init /\ [][NextLoad]_vars /\ WF_vars(QueryAnswered)

\* waitForResourcesToLoadSaga has returned: it breaks at the queryLoaded that
\* leaves showLoadingScreen false, the only place the flag is lowered
waitForResourcesToLoadReturned == ~fhir.showLoadingScreen

\* C37: once a query was dispatched and every dispatched query is answered,
\* loaded or in error, waitForResourcesToLoadSaga returns and the topics are
\* synthesised
C37_TopicsSagaRunsOnceLoaded ==
    (DOMAIN gets # {} /\ fetching = {}) ~> waitForResourcesToLoadReturned

\* C37, the other half: the saga does not go on while a flagged query is
\* still loading
C37_NotWhileFlaggedLoading ==
    [][fhir.showLoadingScreen /\ ~fhir'.showLoadingScreen
           => ~someFlaggedLoading(fhir'.queries)]_vars

\* ---------------------------------------------------------------------------
\* Soft deletion next to edits, saves and immediate deletion
\* ---------------------------------------------------------------------------

NextSoftDelete ==
    \/ Query(Request(Query42, TRUE)) /\ Step("query", Query42)
    \/ \E request \in fetching :
           /\ QueryResolved(request, searchset(<<cond(1)>>))
           /\ Step("queryResolved", request.query)
    \/ Edit(cond(2)) /\ Step("edit", cond(2))
    \/ Delete(cond(1)) /\ Step("delete", cond(1))
    \/ UndoDelete(cond(1)) /\ Step("undoDelete", cond(1))
    \/ posting = {} /\ Save([all |-> TRUE]) /\ Step("save", saves + 1)
    \/ \E p \in posting : SaveResolved(p, transactionResponse) /\ Step("saveResolved", p.id)
    \/ DeleteImmediately(cond(1)) /\ Step("deleteImmediately", cond(1))
    \/ \E d \in deleting : DeleteResolved(d) /\ Step("deleteResolved", d.resource)

SpecSoftDelete == Init /\ [][NextSoftDelete]_vars

\* the resources of the transaction p that are marked for deletion in state
SoftDeletedIn(p, state) ==
    {i \in DOMAIN p.toSave :
        referenceTo(p.toSave[i]).reference \in DOMAIN state.deletions}

\* the delete command calls nothing remote
DeleteCallsNothing ==
    last'.op = "delete" => UNCHANGED <<fetching, posting, deleting>>

\* the transaction a save command builds holds no resource marked for deletion
SaveSkipsDeletions ==
    last'.op = "save" => \A p \in posting' \ posting : SoftDeletedIn(p, fhir') = {}

\* a resource that stays marked for deletion keeps its entry in
\* resourcesFromServer
DeletionKeepsServerEntry ==
    \A ref \in DOMAIN fhir.deletions \cap DOMAIN fhir'.deletions :
        Entry(fhir.resourcesFromServer, fhir.deletions[ref]) # Undefined
            => Entry(fhir'.resourcesFromServer, fhir.deletions[ref]) # Undefined

\* C38: a soft delete is local: the delete command calls nothing remote, no
\* save transaction holds a resource whose reference is in deletions, and a
\* resource whose reference is in deletions keeps its entry in
\* resourcesFromServer
C38_SoftDeleteIsLocal ==
    [][DeleteCallsNothing /\ SaveSkipsDeletions /\ DeletionKeepsServerEntry]_vars

----------------------------------------------------------------------------
====
